---- MODULE Spec2Model ----
(***************************************************************************)
(* The SQL-of-Thought evaluation loop (run_eval.py: evaluate) with the     *)
(* helpers it calls (utils.py: postprocess_sql, normalize_rows,            *)
(* query_execution, exec_query, call_agent, load_schema, load_spider).     *)
(*                                                                         *)
(* Texts are sequences of one-character strings, so that postprocess_sql   *)
(* is computed character by character as the regular expressions of the    *)
(* source compute it.  The text-generation backend and the SQL engine are  *)
(* the environment: every call draws its answer from a small set.          *)
(***************************************************************************)
EXTENDS Integers, Sequences, FiniteSets, TLC

\* Largest dataset (and largest num_samples argument) explored.
MaxSamples == 2

\* run_eval.py:14
MAX_CRITIC_ATTEMPTS == 3

-----------------------------------------------------------------------------
(* Optional values: Python's None and a present value.                     *)
None == {}
Some(x) == {x}
TheValue(o) == CHOOSE x \in o : TRUE

-----------------------------------------------------------------------------
(* Characters.  SANY cannot lex a backquote inside a string, so the        *)
(* backquote character (U+0060) is written BQ.                             *)
BQ == "BQ"
UpperLetters ==
  <<"A","B","C","D","E","F","G","H","I","J","K","L","M",
    "N","O","P","Q","R","S","T","U","V","W","X","Y","Z">>
LowerLetters ==
  <<"a","b","c","d","e","f","g","h","i","j","k","l","m",
    "n","o","p","q","r","s","t","u","v","w","x","y","z">>
Digits == {"0","1","2","3","4","5","6","7","8","9"}

Range(s) == {s[i] : i \in 1..Len(s)}

\* str.lower() on one character
LowerChar(c) ==
  IF \E i \in 1..26 : UpperLetters[i] = c
  THEN LowerLetters[CHOOSE i \in 1..26 : UpperLetters[i] = c]
  ELSE c

\* \w of the re module (ASCII part)
WordChars ==
  Range(UpperLetters) \cup Range(LowerLetters) \cup Digits \cup {"_"}
IsWordChar(c) == c \in WordChars

\* \s of the re module, and what str.strip() removes
SpaceChars == {" ", "\n", "\t", "\r"}
IsSpace(c) == c \in SpaceChars

SetMin(S) == CHOOSE x \in S : \A y \in S : x <= y
SetMax(S) == CHOOSE x \in S : \A y \in S : y <= x

\* str.lower()
lower(s) == [i \in 1..Len(s) |-> LowerChar(s[i])]

\* str.strip()
strip(s) ==
  LET keep == {i \in 1..Len(s) : ~IsSpace(s[i])}
  IN  IF keep = {} THEN <<>> ELSE SubSeq(s, SetMin(keep), SetMax(keep))

\* s[i:] starts with p
StartsWithAt(s, i, p) ==
  /\ i + Len(p) - 1 <= Len(s)
  /\ \A k \in 1..Len(p) : s[i + k - 1] = p[k]

\* s[i:] starts with p, ignoring case (re.IGNORECASE)
StartsWithAtCI(s, i, p) ==
  /\ i + Len(p) - 1 <= Len(s)
  /\ \A k \in 1..Len(p) : LowerChar(s[i + k - 1]) = p[k]

-----------------------------------------------------------------------------
(* postprocess_sql, utils.py:82-97.                                        *)
KwSelect == <<"s","e","l","e","c","t">>
KwInsert == <<"i","n","s","e","r","t">>
Fence    == <<BQ, BQ, BQ>>
FenceSql == <<BQ, BQ, BQ, "s", "q", "l">>
LabelSql == <<"s","q","l">>

\* r'\b(select|insert)\b' matches at position i
KeywordAt(s, i) ==
  /\ \E kw \in {KwSelect, KwInsert} : StartsWithAtCI(s, i, kw)
  /\ (i = 1 \/ ~IsWordChar(s[i - 1]))
  /\ (i + 6 > Len(s) \/ ~IsWordChar(s[i + 6]))

\* match = re.search(...); if match: sql = sql[match.start():]
CutToKeyword(s) ==
  LET hits == {i \in 1..Len(s) : KeywordAt(s, i)}
  IN  IF hits = {} THEN s ELSE SubSeq(s, SetMin(hits), Len(s))

\* re.sub(r"BQBQBQsql|BQBQBQ", "", sql): leftmost matches, first alternative first
RECURSIVE RemoveFencesFrom(_, _)
RemoveFencesFrom(s, i) ==
  IF i > Len(s) THEN <<>>
  ELSE IF StartsWithAt(s, i, FenceSql) THEN RemoveFencesFrom(s, i + 6)
  ELSE IF StartsWithAt(s, i, Fence) THEN RemoveFencesFrom(s, i + 3)
  ELSE <<s[i]>> \o RemoveFencesFrom(s, i + 1)

RemoveFences(s) == RemoveFencesFrom(s, 1)

\* re.sub(r"^sql[:\s]*", "", sql)
RemoveLabel(s) ==
  IF StartsWithAt(s, 1, LabelSql)
  THEN LET stop == {j \in 4..Len(s) : ~(s[j] = ":" \/ IsSpace(s[j]))}
       IN  IF stop = {} THEN <<>> ELSE SubSeq(s, SetMin(stop), Len(s))
  ELSE s

\* sql.replace(BQ, "")
RemoveBackticks(s) == SelectSeq(s, LAMBDA c : c # BQ)

\* re.sub(r"\s+", " ", sql)
RECURSIVE CollapseFrom(_, _)
CollapseFrom(s, i) ==
  IF i > Len(s) THEN <<>>
  ELSE IF IsSpace(s[i])
       THEN LET stop == {j \in i..Len(s) : ~IsSpace(s[j])}
                next == IF stop = {} THEN Len(s) + 1 ELSE SetMin(stop)
            IN  <<" ">> \o CollapseFrom(s, next)
       ELSE <<s[i]>> \o CollapseFrom(s, i + 1)

CollapseSpaces(s) == CollapseFrom(s, 1)

\* re.sub(r"\s+,", ",", sql)
RECURSIVE SpaceCommaFrom(_, _)
SpaceCommaFrom(s, i) ==
  IF i > Len(s) THEN <<>>
  ELSE LET stop == {j \in i..Len(s) : ~IsSpace(s[j])}
           next == IF stop = {} THEN Len(s) + 1 ELSE SetMin(stop)
       IN  IF IsSpace(s[i]) /\ next <= Len(s) /\ s[next] = ","
           THEN <<",">> \o SpaceCommaFrom(s, next + 1)
           ELSE <<s[i]>> \o SpaceCommaFrom(s, i + 1)

RemoveSpaceBeforeComma(s) == SpaceCommaFrom(s, 1)

\* if sql.endswith(";"): sql = sql[:-1].strip()
StripTerminator(s) ==
  IF Len(s) > 0 /\ s[Len(s)] = ";" THEN strip(SubSeq(s, 1, Len(s) - 1)) ELSE s

postprocess_sql(raw) ==
  LET s1 == CutToKeyword(raw)
      s2 == lower(strip(s1))
      s3 == RemoveFences(s2)
      s4 == RemoveLabel(s3)
      s5 == RemoveFences(s4)
      s6 == RemoveBackticks(s5)
      s7 == strip(CollapseSpaces(s6))
      s8 == RemoveSpaceBeforeComma(s7)
  IN  StripTerminator(s8)

-----------------------------------------------------------------------------
(* Query results.  A cell is a Python value with its str() text; a row is  *)
(* a tuple of cells; a result is the list of rows fetchall() returns.      *)
IntCell(t) == [py |-> "int", str |-> t]
StrCell(t) == [py |-> "str", str |-> t]

\* code point order of the characters that occur in cell texts
AsciiOrder == <<" ">> \o <<"0","1","2","3","4","5","6","7","8","9">>
              \o UpperLetters \o <<"_">> \o LowerLetters
CharCode(c) == CHOOSE i \in 1..Len(AsciiOrder) : AsciiOrder[i] = c

\* a <= b for Python strings (depth 1: sequences of characters) and for
\* Python tuples of strings (depth 2): both compare item by item, and a
\* proper prefix comes first
RECURSIVE PyLeq(_, _, _)
PyLeq(depth, a, b) ==
  IF a = <<>> THEN TRUE
  ELSE IF b = <<>> THEN FALSE
  ELSE IF a[1] = b[1] THEN PyLeq(depth, Tail(a), Tail(b))
  ELSE IF depth = 1 THEN CharCode(a[1]) < CharCode(b[1])
  ELSE PyLeq(1, a[1], b[1])

\* sorted(xs) for a list of strings (depth 1) or of tuples of strings
\* (depth 2), by insertion
RECURSIVE InsertSorted(_, _, _)
InsertSorted(depth, x, xs) ==
  IF xs = <<>> THEN <<x>>
  ELSE IF PyLeq(depth, x, xs[1]) THEN <<x>> \o xs
  ELSE <<xs[1]>> \o InsertSorted(depth, x, Tail(xs))

RECURSIVE sorted(_, _)
sorted(depth, xs) ==
  IF xs = <<>> THEN <<>>
  ELSE InsertSorted(depth, xs[1], sorted(depth, Tail(xs)))

\* normalize_rows that leaves the cells of a row in the order fetched
normalize_rows_CellsInOrder(rows) ==
  sorted(2, [i \in 1..Len(rows) |->
               [j \in 1..Len(rows[i]) |-> rows[i][j].str]])

\* utils.py:29-31  sorted([tuple(sorted(map(str, r))) for r in rows])
normalize_rows(rows) ==
  sorted(2, [i \in 1..Len(rows) |->
               sorted(1, [j \in 1..Len(rows[i]) |-> rows[i][j].str])])

-----------------------------------------------------------------------------
(* Decomposition texts.  A text is a sequence of characters; Chars turns   *)
(* a literal into one.                                                     *)
Chars(str) == [i \in 1..Len(str) |-> SubSeq(str, i, i)]

\* str.upper()
UpperChar(c) ==
  IF \E i \in 1..26 : LowerLetters[i] = c
  THEN UpperLetters[CHOOSE i \in 1..26 : LowerLetters[i] = c]
  ELSE c
upper(s) == [i \in 1..Len(s) |-> UpperChar(s[i])]

\* p in s
Contains(s, p) == \E i \in 1..(Len(s) + 1) : StartsWithAt(s, i, p)

\* A call either returns a value or raises an exception.
Return(v) == [raised |-> None, ret |-> Some(v)]
Raise(e) == [raised |-> Some(e), ret |-> None]
Raised(r) == r.raised # None
Ret(r) == TheValue(r.ret)

\* utils.py:205-217  clean_json(text): from the first '{' to the last '}',
\* without leading and trailing backquotes, newlines and spaces
CleanJsonStrip(s) ==
  LET keep == {i \in 1..Len(s) : s[i] \notin {BQ, "\n", "\r", " "}}
  IN  IF keep = {} THEN <<>> ELSE SubSeq(s, SetMin(keep), SetMax(keep))
clean_json(text) ==
  LET opens  == {i \in 1..Len(text) : text[i] = "{"}
      closes == {i \in 1..Len(text) : text[i] = "}"}
  IN  IF opens = {} THEN Raise("ValueError")
      ELSE IF closes = {} THEN Raise("ValueError")
      ELSE Return(CleanJsonStrip(SubSeq(text, SetMin(opens), SetMax(closes))))

\* What json.loads returns: null, a number, a string, a list, or a dict
\* with its keys in order.  Every value has every field, so that any two
\* can be compared.
JValue(t, n, s, keys, items) ==
  [t |-> t, n |-> n, s |-> s, keys |-> keys, items |-> items]
JNull == JValue("null", 0, <<>>, <<>>, <<>>)
JNum(n) == JValue("num", n, <<>>, <<>>, <<>>)
JStr(s) == JValue("str", 0, s, <<>>, <<>>)
JList(items) == JValue("list", 0, <<>>, <<>>, items)
JDict(keys, items) == JValue("dict", 0, <<>>, keys, items)

\* key in data, data[key]
HasKey(data, key) == \E i \in 1..Len(data.keys) : data.keys[i] = key
GetKey(data, key) ==
  data.items[CHOOSE i \in 1..Len(data.keys) : data.keys[i] = key]

\* json.dumps(data), for numbers of one digit and strings that need no
\* escape
RECURSIVE json_dumps(_)
RECURSIVE DumpItems(_, _)
DumpItems(keys, items) ==
  IF items = <<>> THEN <<>>
  ELSE (IF keys = <<>> THEN <<>>
        ELSE <<"\"">> \o keys[1] \o <<"\"", ":", " ">>)
       \o json_dumps(items[1])
       \o (IF Len(items) = 1 THEN <<>>
           ELSE <<",", " ">>
                \o DumpItems(IF keys = <<>> THEN <<>> ELSE Tail(keys),
                             Tail(items)))
json_dumps(v) ==
  CASE v.t = "null" -> Chars("null")
    [] v.t = "num"  -> <<Chars("0123456789")[v.n + 1]>>
    [] v.t = "str"  -> <<"\"">> \o v.s \o <<"\"">>
    [] v.t = "list" -> <<"[">> \o DumpItems(<<>>, v.items) \o <<"]">>
    [] v.t = "dict" -> <<"{">> \o DumpItems(v.keys, v.items) \o <<"}">>

\* The documents of the model: what the subproblem agent is asked for
\* (prompts.py:48-56) and the shapes parse_subproblems tells apart, with
\* clause values that are strings and clause values that are not.
ClauseTexts == {Chars("WHERE"), Chars("order by"), Chars("Group By")}
ClauseValues ==
  {JStr(t) : t \in ClauseTexts}
    \cup {JNum(5), JNull, JList(<<JStr(Chars("JOIN"))>>), JDict(<<>>, <<>>)}
MaxItems == 2
ListsOf(S) ==
  UNION {[1..n -> S] : n \in 0..MaxItems}
SubproblemItems ==
  {JDict(<<Chars("clause")>>, <<v>>) : v \in ClauseValues}
    \cup {JStr(Chars("sort the rows")), JStr(Chars("LIMIT")), JNum(5)}
JsonDocuments ==
  {JDict(<<Chars("clauses")>>, <<v>>) :
     v \in ClauseValues \cup {JList(l) : l \in ListsOf(ClauseValues)}}
    \cup {JDict(<<Chars("subproblems")>>, <<JList(l)>>) :
            l \in ListsOf(SubproblemItems)}
    \cup {JList(l) : l \in ListsOf(SubproblemItems)}
    \cup {JDict(<<Chars("subproblems")>>, <<JNum(5)>>),
          JDict(<<Chars("steps")>>,
                <<JList(<<JStr(Chars("First, SELECT columns"))>>)>>),
          JDict(<<>>, <<>>),
          JNum(5), JNull, JStr(Chars("use a join"))}

\* json.loads(text): the document whose text this is, for the documents of
\* the model in the form json.dumps gives them; any other text of the
\* model is not JSON
JsonTexts == [d \in JsonDocuments |-> json_dumps(d)]
json_loads(text) ==
  LET hits == {d \in JsonDocuments : JsonTexts[d] = text}
  IN  IF hits = {} THEN Raise("JSONDecodeError")
      ELSE Return(CHOOSE d \in hits : TRUE)

\* analyze_by_subproblems.py:79-93  clause_patterns, in dict order
ClausePattern(clause, patterns) ==
  [clause |-> Chars(clause),
   patterns |-> [i \in 1..Len(patterns) |-> Chars(patterns[i])]]
clause_patterns ==
  <<ClausePattern("SELECT", <<"SELECT", "SELECTING", "COLUMNS", "FIELDS">>),
    ClausePattern("FROM", <<"FROM", "TABLE", "TABLES">>),
    ClausePattern("WHERE", <<"WHERE", "FILTER", "CONDITION", "FILTERING">>),
    ClausePattern("JOIN", <<"JOIN", "JOINING", "INNER JOIN", "LEFT JOIN",
                            "RIGHT JOIN", "OUTER JOIN">>),
    ClausePattern("GROUP BY", <<"GROUP BY", "GROUPING", "AGGREGATE",
                                "AGGREGATION">>),
    ClausePattern("HAVING", <<"HAVING">>),
    ClausePattern("ORDER BY", <<"ORDER BY", "SORT", "SORTING", "ORDERING">>),
    ClausePattern("LIMIT", <<"LIMIT", "TOP", "FIRST">>),
    ClausePattern("UNION", <<"UNION">>),
    ClausePattern("INTERSECT", <<"INTERSECT">>),
    ClausePattern("EXCEPT", <<"EXCEPT", "MINUS">>),
    ClausePattern("DISTINCT", <<"DISTINCT", "UNIQUE">>),
    ClausePattern("SUBQUERY", <<"SUBQUERY", "NESTED", "INNER QUERY">>)>>

\* analyze_by_subproblems.py:65-102  extract_clauses_from_text(text)
extract_clauses_from_text(text) ==
  LET text_upper == upper(text)
      found == SelectSeq(clause_patterns,
                 LAMBDA e : \E k \in 1..Len(e.patterns) :
                              Contains(text_upper, e.patterns[k]))
  IN  [i \in 1..Len(found) |-> JStr(found[i].clause)]

\* analyze_by_subproblems.py:35-41, 45-50  the loop over the items
RECURSIVE CollectClauses(_)
CollectClauses(items) ==
  IF items = <<>> THEN <<>>
  ELSE LET it == items[1]
       IN  (IF it.t = "dict" /\ HasKey(it, Chars("clause"))
            THEN <<GetKey(it, Chars("clause"))>>
            ELSE IF it.t = "str" THEN extract_clauses_from_text(it.s)
            ELSE <<>>)
           \o CollectClauses(Tail(items))

\* bool(v), iter(v) and hash(v) of Python, for the values json.loads gives
Truthy(v) ==
  CASE v.t = "null" -> FALSE
    [] v.t = "num"  -> v.n # 0
    [] v.t = "str"  -> v.s # <<>>
    [] v.t = "list" -> v.items # <<>>
    [] v.t = "dict" -> v.keys # <<>>
Iterable(v) == v.t \in {"str", "list", "dict"}
Elements(v) ==
  CASE v.t = "list" -> v.items
    [] v.t = "str"  -> [i \in 1..Len(v.s) |-> JStr(<<v.s[i]>>)]
    [] v.t = "dict" -> [i \in 1..Len(v.keys) |-> JStr(v.keys[i])]
    [] OTHER        -> <<>>
Hashable(v) == v.t \in {"null", "num", "str"}

\* analyze_by_subproblems.py:11-62  parse_subproblems(sub_json).  The list
\* it returns is list(set(clauses)): its items are distinct and come in an
\* order the hash seed of the run decides, so it is given as their set.
parse_subproblems(sub_json) ==
  LET loaded == json_loads(sub_json)
      data == Ret(loaded)
      clauses ==
        IF Raised(loaded) THEN JList(extract_clauses_from_text(sub_json))
        ELSE IF data.t = "dict" /\ HasKey(data, Chars("clauses"))
        THEN GetKey(data, Chars("clauses"))
        ELSE IF data.t = "dict" /\ HasKey(data, Chars("subproblems"))
        THEN LET subproblems == GetKey(data, Chars("subproblems"))
             IN  IF subproblems.t = "list"
                 THEN JList(CollectClauses(subproblems.items))
                 ELSE JList(<<>>)
        ELSE IF data.t = "list" THEN JList(CollectClauses(data.items))
        ELSE JList(extract_clauses_from_text(json_dumps(data)))
  IN  IF ~Truthy(clauses) THEN Return({})
      ELSE IF ~Iterable(clauses) THEN Raise("TypeError")
      ELSE IF \E v \in Range(Elements(clauses)) : ~Hashable(v)
      THEN Raise("TypeError")
      ELSE Return(Range(Elements(clauses)))

\* utils.py:243-340  the guidance blocks a clause adds, by the name of the
\* clause they are for
PolicyClause(c) ==
  CASE c \in {Chars("HAVING"), Chars("GROUPBY"), Chars("GROUP BY")}
         -> <<"GROUP BY">>
    [] c \in {Chars("ORDERBY"), Chars("ORDER BY")} -> <<"ORDER BY">>
    [] c = Chars("LIMIT") -> <<"LIMIT">>
    [] c = Chars("JOIN") -> <<"JOIN">>
    [] c = Chars("UNION") -> <<"UNION">>
    [] c = Chars("INTERSECT") -> <<"INTERSECT">>
    [] c = Chars("EXCEPT") -> <<"EXCEPT">>
    [] OTHER -> <<>>

\* the text of a block, by its first line
PlanBlock(name) == Chars("\n    " \o name \o " detected:\n")
SqlBlock(name) == Chars("\n    Ensure (" \o name \o "):\n")

\* utils.py:236-342  clause_specific_prompts(clauses): the blocks are
\* concatenated in the order of the list
RECURSIVE clause_specific_prompts(_)
clause_specific_prompts(clauses) ==
  IF clauses = <<>> THEN Return([plan |-> <<>>, sql |-> <<>>])
  ELSE IF clauses[1].t # "str" THEN Raise("AttributeError")
  ELSE LET names == PolicyClause(upper(clauses[1].s))
           rest  == clause_specific_prompts(Tail(clauses))
       IN  IF Raised(rest) THEN rest
           ELSE Return(
                  [plan |-> (IF names = <<>> THEN <<>>
                             ELSE PlanBlock(names[1])) \o Ret(rest).plan,
                   sql  |-> (IF names = <<>> THEN <<>>
                             ELSE SqlBlock(names[1])) \o Ret(rest).sql])

-----------------------------------------------------------------------------
(* The environment: the dataset, the databases, the text-generation        *)
(* backend.                                                                *)

\* What the SQL agent and the correction-SQL agent may answer: a clean
\* statement, a statement that postprocess_sql does not bring to a fixed
\* point in one pass, and another statement with a terminator.
SqlSelect1  == <<"S","E","L","E","C","T"," ","1">>
SqlBroken   == <<"x"," ","s","e","l",BQ,"e","c","t"," ","1">>
SqlSelect2  == <<"s","e","l","e","c","t"," ","2",";">>
SqlResponses == {SqlSelect1, SqlBroken, SqlSelect2}

\* item['query'] of the dataset
GoldQueries == {SqlSelect1}

RowSets == { << <<IntCell(<<"1">>)>> >>, << <<IntCell(<<"2">>)>> >> }

\* What sqlite does with one statement: an error, or rows.
Outcomes == {[ok |-> FALSE, rows |-> <<>>]}
            \cup {[ok |-> TRUE, rows |-> r] : r \in RowSets}

\* sqlite3 runs the empty statement without error and fetches no row.
EmptyStatement == <<>>
EmptyOutcome == [ok |-> TRUE, rows |-> <<>>]

\* A database file: missing, not readable as a database, or one whose
\* engine answers every statement deterministically.  engine holds the
\* answers fixed so far: a statement is given its answer when the run first
\* comes to it and keeps it.
NoEngine == [t \in {EmptyStatement} |-> EmptyOutcome]
DatabaseStatus == {"missing", "corrupt", "ok"}
Database(st) == [status |-> st, engine |-> NoEngine]

\* the databases that agree with db and also answer the statements stmts
Answering(db, stmts) ==
  {[db EXCEPT !.engine = f] :
     f \in {g \in [DOMAIN db.engine \cup stmts -> Outcomes \cup {EmptyOutcome}] :
              /\ \A t \in DOMAIN db.engine : g[t] = db.engine[t]
              /\ \A t \in stmts \ DOMAIN db.engine : g[t] \in Outcomes}}

\* str(e) of the sqlite error for a statement: it names the statement.
ErrorText(stmt) == <<"e","r","r","o","r",":"," ">> \o stmt

\* utils.py:128-151  exec_query(db_file, sql) -> (rows, error)
exec_query(db, stmt) ==
  IF db.status = "missing"
  THEN [rows |-> None,
        error |-> Some(<<"n","o"," ","d","b">>)]
  ELSE IF db.engine[stmt].ok
       THEN [rows |-> Some(db.engine[stmt].rows), error |-> None]
       ELSE [rows |-> None, error |-> Some(ErrorText(stmt))]

\* utils.py:47-52  the comparison of the two results
RowsMatch(gen, gold) ==
  IF gen.error = None /\ gold.error = None
  THEN normalize_rows(TheValue(gen.rows)) = normalize_rows(TheValue(gold.rows))
  ELSE FALSE

\* query_execution that returns the error of the reference statement
query_execution_GoldError(it, stmt) ==
  LET sql2     == postprocess_sql(stmt)
      gold_sql == postprocess_sql(it.query)
      gold     == exec_query(it.db, gold_sql)
      gen      == exec_query(it.db, sql2)
  IN  [exec_match |-> RowsMatch(gen, gold), error |-> gold.error]

\* utils.py:34-54  query_execution(item, sql) -> (exec_match, gen_err)
query_execution(it, stmt) ==
  LET sql2     == postprocess_sql(stmt)
      gold_sql == postprocess_sql(it.query)
      gold     == exec_query(it.db, gold_sql)
      gen      == exec_query(it.db, sql2)
  IN  [exec_match |-> RowsMatch(gen, gold), error |-> gen.error]

\* utils.py:39-45  the two statements query_execution runs
QueryStatements(it, stmt) ==
  {postprocess_sql(it.query), postprocess_sql(stmt)}

\* utils.py:57-79  call_agent returns "" when the API call fails
AgentFailure == ""
SqlAgentFailure == <<>>

-----------------------------------------------------------------------------
(* evaluate(), run_eval.py:17-294.                                         *)
VARIABLES
  pc,               \* where evaluate() is
  devLen,           \* len(load_spider(dev=True))
  num_samples,      \* the argument of evaluate
  idx,              \* enumerate(dev) index of the sample at hand
  item,             \* the sample at hand: its gold query and its database
  entry,            \* the dict built for the sample at hand
  corrected_schema, \* schema linking output, or the raw schema
  sub_json_raw,     \* what the subproblem agent answered
  sub_json,         \* decomposition output, or "{}"
  subprob_plan,     \* planning guidance of clause_specific_prompts
  subprob_sql,      \* generation guidance of clause_specific_prompts
  appended,         \* entry is the object that results ends with
  plan,             \* query plan, or the generic instruction
  sql,              \* the candidate SQL
  exec_match,       \* last verdict of query_execution
  error,            \* last gen_err of query_execution
  attempts,         \* completed correction attempts
  correction_plan,  \* last answer of the correction-plan agent
  total, exact_match, valid_sql, exec_correct,  \* running counters
  results,          \* the result list
  summary,          \* the document written to results/, or None
  exc,              \* the exception in flight, or None
  unchanged,        \* history: the last corrected candidate equals the
                    \* candidate it replaced
  iters,            \* history: loop iterations begun for this sample
  execCalls,        \* history: exec_query calls made for this sample
  call              \* a function called on its own: its name, argument and
                    \* result; NoCall during a run of evaluate

decomposed == <<sub_json_raw, subprob_plan, subprob_sql>>
locals ==
  <<item, entry, corrected_schema, sub_json, plan, sql, exec_match, error,
    attempts, correction_plan, unchanged, iters, execCalls, decomposed,
    appended>>
counters == <<total, exact_match, valid_sql, exec_correct>>
\* what no step of evaluate changes
inputs == <<devLen, num_samples, call>>
vars == <<pc, idx, locals, counters, results, summary, exc, inputs>>

\* run_eval.py:40  dev = dev[:num_samples]
SliceLen == IF devLen < num_samples THEN devLen ELSE num_samples

NoItem == [query |-> <<>>, db |-> Database("missing")]
NoEntry == <<>>

RawSchema == "schema"
\* mutant of GenericPlan: Planning has no fallback
GenericPlan_Missing == ""

GenericPlan == "Generate SQL based on the question"

\* entry[k] = v
SetKey(e, k, v) == (k :> v) @@ e

\* run_eval.py:136,168  exec_failed = not exec_match
exec_failed == ~exec_match

\* The locals of a sample are dead once the sample is left: every one is
\* assigned again before it is read.  Within a sample, sub_json, the
\* guidance, plan, corrected_schema and correction_plan are read only to
\* build the next prompts, and the backend's answer does not depend on the
\* prompt: each is cleared once the last prompt it could be part of is
\* built.
ResetLocals ==
  /\ item' = NoItem
  /\ entry' = NoEntry
  /\ corrected_schema' = ""
  /\ sub_json_raw' = <<>>
  /\ sub_json' = <<>>
  /\ subprob_plan' = <<>>
  /\ subprob_sql' = <<>>
  /\ appended' = FALSE
  /\ plan' = ""
  /\ sql' = <<>>
  /\ exec_match' = FALSE
  /\ error' = None
  /\ attempts' = 0
  /\ correction_plan' = ""
  /\ unchanged' = FALSE
  /\ iters' = 0
  /\ execCalls' = 0

\* continue / end of the loop body: on to the next sample
NextIteration ==
  /\ idx' = idx + 1
  /\ pc' = "for"
  /\ ResetLocals

NoCall == [fn |-> "evaluate", arg |-> <<>>, ret |-> None]

\* run_eval.py:50-51 and the locals before the first sample
Idle ==
  /\ idx = 0
  /\ item = NoItem
  /\ entry = NoEntry
  /\ corrected_schema = ""
  /\ sub_json_raw = <<>>
  /\ sub_json = <<>>
  /\ subprob_plan = <<>>
  /\ subprob_sql = <<>>
  /\ appended = FALSE
  /\ plan = ""
  /\ sql = <<>>
  /\ exec_match = FALSE
  /\ error = None
  /\ attempts = 0
  /\ correction_plan = ""
  /\ unchanged = FALSE
  /\ iters = 0
  /\ execCalls = 0
  /\ total = 0
  /\ exact_match = 0
  /\ valid_sql = 0
  /\ exec_correct = 0
  /\ results = <<>>
  /\ summary = None
  /\ exc = None

Init ==
  /\ pc = "start"
  /\ devLen \in 0..MaxSamples
  /\ num_samples \in 0..MaxSamples
  /\ call = NoCall
  /\ Idle

\* run_eval.py:33-40
LoadSpider ==
  /\ pc = "start"
  /\ pc' = IF devLen = 0 THEN "returned" ELSE "for"
  /\ UNCHANGED <<idx, locals, counters, results, summary, exc, inputs>>

\* run_eval.py:57  the for loop is exhausted
LoopDone ==
  /\ pc = "for"
  /\ idx >= SliceLen
  /\ pc' = "report"
  /\ UNCHANGED <<idx, locals, counters, results, summary, exc, inputs>>

\* run_eval.py:70  load_schema raises (utils.py:170-201 run sqlite
\* statements outside any try): the exception leaves evaluate
SchemaRaises ==
  /\ pc = "for"
  /\ idx < SliceLen
  /\ \E q \in GoldQueries : item' = [query |-> q, db |-> Database("corrupt")]
  /\ exc' = Some("DatabaseError")
  /\ pc' = "raised"
  /\ UNCHANGED <<idx, entry, corrected_schema, sub_json, decomposed,
                 appended, plan, sql,
                 exec_match, error, attempts, correction_plan, unchanged,
                 iters, execCalls, counters, results, summary, inputs>>

\* run_eval.py:70-73  load_schema returns "": the sample is skipped
SchemaMissing ==
  /\ pc = "for"
  /\ idx < SliceLen
  /\ NextIteration
  /\ UNCHANGED <<counters, results, summary, exc, inputs>>

\* run_eval.py:62-80  the sample has a schema: entry is created
SampleBegins ==
  /\ pc = "for"
  /\ idx < SliceLen
  /\ \E q \in GoldQueries : item' = [query |-> q, db |-> Database("ok")]
  /\ entry' = [sample_id |-> idx + 1]
  /\ pc' = "schema"
  /\ UNCHANGED <<idx, corrected_schema, sub_json, decomposed,
                 appended, plan, sql, exec_match,
                 error, attempts, correction_plan, unchanged, iters,
                 execCalls, counters, results, summary, exc, inputs>>

\* run_eval.py:83-90  Agent 1
SchemaLinking ==
  /\ pc = "schema"
  /\ \E r \in {AgentFailure, "linked"} :
       corrected_schema' = IF r = AgentFailure THEN RawSchema ELSE r
  /\ pc' = "decomp"
  /\ UNCHANGED <<idx, item, entry, sub_json, decomposed,
                 appended, plan, sql, exec_match, error,
                 attempts, correction_plan, unchanged, iters, execCalls,
                 counters, results, summary, exc, inputs>>

\* utils.py:57-79  call_agent returns "" when the API call fails
SubproblemAgentFailure == <<>>
EmptyJson == Chars("{}")

\* {"clauses": v}
ClausesDocument(v) == json_dumps(JDict(<<Chars("clauses")>>, <<v>>))

\* What the subproblem agent may answer: nothing; the JSON asked for, after
\* a few words; prose without braces; braces around prose; clauses that are
\* a number; clauses of which one is a number.
SubproblemResponses ==
  {SubproblemAgentFailure,
   Chars("Here is the JSON: ")
     \o ClausesDocument(JList(<<JStr(Chars("order by")),
                                JStr(Chars("Group By"))>>)),
   Chars("We need to SELECT, WHERE, and JOIN tables"),
   Chars("{sort the rows}"),
   ClausesDocument(JNum(5)),
   ClausesDocument(JList(<<JStr(Chars("WHERE")), JNum(5)>>))}

\* list(set(xs)): the items in an order the hash seed of the run decides
Orderings(S) ==
  {f \in [1..Cardinality(S) -> S] :
     \A i, j \in 1..Cardinality(S) : i # j => f[i] # f[j]}

\* run_eval.py:218  an exception raised inside the try reaches the handler
Throws(r) ==
  /\ pc' = "except"
  /\ exc' = r.raised

\* run_eval.py:92-106  Agent 2, the clause detector and the clause guidance
Decomposition ==
  /\ pc = "decomp"
  /\ \E r \in SubproblemResponses :
       LET cleaned == IF r = SubproblemAgentFailure THEN Return(EmptyJson)
                      ELSE clean_json(r)
           tags    == parse_subproblems(Ret(cleaned))
       IN  /\ sub_json_raw' = r
           /\ IF Raised(cleaned)
              THEN /\ Throws(cleaned)
                   /\ UNCHANGED <<sub_json, subprob_plan, subprob_sql>>
              ELSE /\ sub_json' = Ret(cleaned)
                   /\ IF Raised(tags)
                      THEN /\ Throws(tags)
                           /\ UNCHANGED <<subprob_plan, subprob_sql>>
                      ELSE \E subproblem_specific_clauses
                                \in Orderings(Ret(tags)) :
                             LET g == clause_specific_prompts(
                                        subproblem_specific_clauses)
                             IN  IF Raised(g)
                                 THEN /\ Throws(g)
                                      /\ UNCHANGED <<subprob_plan,
                                                     subprob_sql>>
                                 ELSE /\ subprob_plan' = Ret(g).plan
                                      /\ subprob_sql' = Ret(g).sql
                                      /\ pc' = "plan"
                                      /\ exc' = exc
  /\ UNCHANGED <<idx, item, entry, corrected_schema, plan, sql, exec_match,
                 error, attempts, correction_plan, unchanged, iters,
                 execCalls, appended, counters, results, summary, inputs>>

\* prompts.py:62-85  query_plan_agent_prompt(question, corrected_schema,
\* sub_json): the template, by its labels, with the three values put in
Question == "how many?"
plan_prompt ==
  Chars("Question: " \o Question \o "\nSchema:\n" \o corrected_schema
        \o "\nSubproblems:\n") \o sub_json

\* prompts.py:88-109  sql_agent_prompt(question, plan, corrected_schema)
sql_prompt ==
  Chars("Question: " \o Question \o "\nSchema:\n" \o corrected_schema
        \o "\nPlan:\n" \o plan)

\* run_eval.py:108-115  Agent 3
Planning ==
  /\ pc = "plan"
  /\ \E r \in {AgentFailure, "steps"} :
       plan' = IF r = AgentFailure THEN GenericPlan ELSE r
  /\ pc' = "gen"
  /\ UNCHANGED <<idx, item, entry, corrected_schema, sub_json, decomposed,
                 appended, sql,
                 exec_match, error, attempts, correction_plan, unchanged,
                 iters, execCalls, counters, results, summary, exc, inputs>>

\* run_eval.py:123-126  the entry of a sample whose SQL agent failed
FailedEntry(e) ==
  SetKey(SetKey(SetKey(SetKey(e, "gen_sql", <<>>), "exact_match", FALSE),
                "valid_sql", FALSE), "exec_match", FALSE)

\* mutant of SqlAgentFailed: the sample is not counted
SqlAgentFailed_NotCounted ==
  /\ results' = Append(results, FailedEntry(entry))
  /\ NextIteration
  /\ UNCHANGED <<counters, summary, exc, inputs>>

\* run_eval.py:121-129  Agent 4 failed: the sample is finalized
SqlAgentFailed ==
  /\ results' = Append(results, FailedEntry(entry))
  /\ total' = total + 1
  /\ NextIteration
  /\ UNCHANGED <<exact_match, valid_sql, exec_correct, summary, exc, inputs>>

\* run_eval.py:131-137  first candidate, first execution
SqlAgentAnswered(r) ==
  LET cand == postprocess_sql(r)
  IN  /\ \E db \in Answering(item.db, QueryStatements(item, cand)) :
            LET it == [item EXCEPT !.db = db]
                qe == query_execution(it, cand)
            IN  /\ item' = it
                /\ exec_match' = qe.exec_match
                /\ error' = qe.error
      /\ sql' = cand
      /\ attempts' = 0
      /\ execCalls' = execCalls + 2
      /\ plan' = ""
      /\ sub_json_raw' = <<>>
      /\ sub_json' = <<>>
      /\ subprob_plan' = <<>>
      /\ subprob_sql' = <<>>
      /\ pc' = "loop"
      /\ UNCHANGED <<idx, entry, appended, corrected_schema,
                     correction_plan, unchanged, iters, counters, results,
                     summary, exc, inputs>>

\* run_eval.py:117-137  Agent 4
Generation ==
  /\ pc = "gen"
  /\ \E r \in SqlResponses \cup {SqlAgentFailure} :
       IF r = SqlAgentFailure THEN SqlAgentFailed ELSE SqlAgentAnswered(r)

\* mutant of LoopGuard: the verdict of the comparison is not looked at
LoopGuard_IgnoresVerdict(failed, n) == n < MAX_CRITIC_ATTEMPTS

\* mutant of LoopGuard: the bound is off by one
LoopGuard_OffByOne(failed, n) == failed /\ n <= MAX_CRITIC_ATTEMPTS

\* run_eval.py:143  while exec_failed and attempts < MAX_CRITIC_ATTEMPTS
LoopGuard(failed, n) == failed /\ n < MAX_CRITIC_ATTEMPTS

LoopHead ==
  /\ pc = "loop"
  /\ IF LoopGuard(exec_failed, attempts)
     THEN /\ pc' = "corr_plan"
          /\ iters' = iters + 1
          /\ corrected_schema' = corrected_schema
     ELSE /\ pc' = "score_em"
          /\ iters' = iters
          /\ corrected_schema' = ""
  /\ UNCHANGED <<idx, item, entry, sub_json, decomposed,
                 appended, plan, sql,
                 exec_match, error, attempts, correction_plan, unchanged,
                 execCalls, counters, results, summary, exc, inputs>>

\* prompts.py:112-132  correction_plan_agent_prompt(question, sql,
\* corrected_schema, error): the template, by its labels, with the four
\* values put in; str(error) is "None" when there is no error
correction_plan_prompt ==
  Chars("Question: " \o Question \o "\nSchema:\n" \o corrected_schema
        \o "\nCurrent SQL:\n")
    \o sql \o Chars("\nError:\n")
    \o (IF error = None THEN Chars("None") ELSE TheValue(error))

\* run_eval.py:146-152  the correction plan; a failed call is not checked
\* (the if only guards the progress message)
AfterCorrectionPlan(r) == "corr_sql"

CorrectionPlan ==
  /\ pc = "corr_plan"
  /\ \E r \in {AgentFailure, "fix"} :
       /\ correction_plan' = r
       /\ pc' = AfterCorrectionPlan(r)
  /\ UNCHANGED <<idx, item, entry, corrected_schema, sub_json, decomposed,
                 appended, plan, sql,
                 exec_match, error, attempts, unchanged, iters, execCalls,
                 counters, results, summary, exc, inputs>>

\* mutant of CorrectionFailed: the empty answer is taken as the candidate
CorrectionFailed_TakesAnswer ==
  /\ pc' = "score_em"
  /\ correction_plan' = ""
  /\ sql' = postprocess_sql(SqlAgentFailure)
  /\ corrected_schema' = ""
  /\ UNCHANGED <<idx, item, entry, sub_json, decomposed,
                 appended, plan,
                 exec_match, error, attempts, unchanged,
                 iters, execCalls, counters, results, summary, exc, inputs>>

\* mutant of CorrectionFailed: the SQL agent is asked again
CorrectionFailed_Regenerates ==
  /\ pc' = "gen"
  /\ correction_plan' = ""
  /\ UNCHANGED <<idx, item, entry, corrected_schema, sub_json, decomposed,
                 appended, plan, sql,
                 exec_match, error, attempts, unchanged,
                 iters, execCalls, counters, results, summary, exc, inputs>>

\* run_eval.py:159-161  the correction-SQL call failed: break
CorrectionFailed ==
  /\ pc' = "score_em"
  /\ correction_plan' = ""
  /\ corrected_schema' = ""
  /\ UNCHANGED <<idx, item, entry, sub_json, decomposed,
                 appended, plan, sql,
                 exec_match, error, attempts, unchanged,
                 iters, execCalls, counters, results, summary, exc, inputs>>

\* mutant of AttemptsAfter: the attempt is not counted
AttemptsAfter_NotCounted(n) == n

\* run_eval.py:169  attempts += 1
AttemptsAfter(n) == n + 1

\* run_eval.py:163-174  the corrected candidate replaces sql and is executed;
\* the two messages that carry a check mark or a cross (172, 174) raise
\* UnicodeEncodeError on a console that cannot encode them
CorrectionAnswered(r) ==
  LET cand == postprocess_sql(r)
      n    == AttemptsAfter(attempts)
  IN  /\ \E db \in Answering(item.db, QueryStatements(item, cand)) :
            LET it == [item EXCEPT !.db = db]
                qe == query_execution(it, cand)
            IN  /\ item' = it
                /\ exec_match' = qe.exec_match
                /\ error' = qe.error
      /\ unchanged' = (cand = sql)
      /\ sql' = cand
      /\ attempts' = n
      /\ execCalls' = execCalls + 2
      /\ \/ /\ pc' = "loop"
            /\ exc' = exc
         \/ /\ exec_match' \/ n >= MAX_CRITIC_ATTEMPTS
            /\ pc' = "except"
            /\ exc' = Some("UnicodeEncodeError")
      /\ correction_plan' = ""
      /\ UNCHANGED <<idx, entry, corrected_schema, sub_json, decomposed,
                 appended, plan,
                     iters, counters, results, summary, inputs>>

\* run_eval.py:154-174
CorrectionSql ==
  /\ pc = "corr_sql"
  /\ \E r \in SqlResponses \cup {SqlAgentFailure} :
       IF r = SqlAgentFailure THEN CorrectionFailed ELSE CorrectionAnswered(r)

\* run_eval.py:179,182  sql.strip().lower() == gold_sql_processed.strip().lower()
IsExactMatch(cand, gold_query) ==
  lower(strip(cand)) = lower(strip(postprocess_sql(gold_query)))

\* run_eval.py:176-188  Metric 1; the message carries a check mark or a
\* cross and may raise after the counter is updated
ScoreExactMatch ==
  /\ pc = "score_em"
  /\ LET em == IsExactMatch(sql, item.query)
     IN  /\ entry' = SetKey(SetKey(entry, "gen_sql", sql), "exact_match", em)
         /\ exact_match' = IF em THEN exact_match + 1 ELSE exact_match
  /\ \/ /\ pc' = "score_valid"
        /\ exc' = exc
     \/ /\ pc' = "except"
        /\ exc' = Some("UnicodeEncodeError")
  /\ UNCHANGED <<idx, item, corrected_schema, sub_json, decomposed,
                 appended, plan, sql,
                 exec_match, error, attempts, correction_plan, unchanged,
                 iters, execCalls, total, valid_sql, exec_correct, results,
                 summary, inputs>>

\* mutant of IsValidSql: the error of the comparator's run is used again
IsValidSql_Reused(db, cand, last_error) == last_error = None

\* run_eval.py:191-194  gen_err is None, for the candidate as it stands
IsValidSql(db, cand, last_error) == exec_query(db, cand).error = None

\* run_eval.py:190-199  Metric 2
ScoreValidSql ==
  /\ pc = "score_valid"
  /\ \E db \in Answering(item.db, {sql}) :
       /\ item' = [item EXCEPT !.db = db]
       /\ LET ok == IsValidSql(db, sql, error)
          IN  /\ entry' = SetKey(entry, "valid_sql", ok)
              /\ valid_sql' = IF ok THEN valid_sql + 1 ELSE valid_sql
  /\ execCalls' = execCalls + 1
  /\ \/ /\ pc' = "score_exec"
        /\ exc' = exc
     \/ /\ pc' = "except"
        /\ exc' = Some("UnicodeEncodeError")
  /\ UNCHANGED <<idx, corrected_schema, sub_json, decomposed,
                 appended, plan, sql,
                 exec_match, error, attempts, correction_plan, unchanged,
                 iters, total, exact_match, exec_correct, results, summary,
                 inputs>>

\* run_eval.py:201-210  Metric 3, then the entry is appended: results ends
\* with the object entry names.  Of the locals only entry is read after
\* the append.
ScoreExecution ==
  /\ pc = "score_exec"
  /\ exec_correct' = IF exec_match THEN exec_correct + 1 ELSE exec_correct
  /\ entry' = SetKey(entry, "exec_match", exec_match)
  /\ \/ /\ results' = Append(results, entry')
        /\ total' = total + 1
        /\ appended' = TRUE
        /\ exc' = exc
        /\ pc' = "progress"
        /\ item' = NoItem
        /\ sql' = <<>>
        /\ exec_match' = FALSE
        /\ error' = None
        /\ attempts' = 0
        /\ unchanged' = FALSE
        /\ iters' = 0
        /\ execCalls' = 0
        /\ UNCHANGED <<idx, corrected_schema, sub_json, decomposed, plan,
                       correction_plan>>
     \/ /\ pc' = "except"
        /\ exc' = Some("UnicodeEncodeError")
        /\ UNCHANGED <<idx, item, corrected_schema, sub_json, decomposed,
                       appended, plan, sql, exec_match, error, attempts,
                       correction_plan, unchanged, iters, execCalls, total,
                       results>>
  /\ UNCHANGED <<exact_match, valid_sql, summary, inputs>>

\* run_eval.py:213-216  the progress lines, inside the try and after the
\* append.  They are plain text; a print still raises OSError when the
\* write to stdout fails, and the handler then runs for a sample that has
\* its entry in results.
Progress ==
  /\ pc = "progress"
  /\ \/ /\ exc' = exc
        /\ NextIteration
     \/ /\ pc' = "except"
        /\ exc' = Some("OSError")
        /\ UNCHANGED <<idx, locals>>
  /\ UNCHANGED <<counters, results, summary, inputs>>

\* run_eval.py:223-227  the entry written by the exception handler
ErrorEntry(e, x) ==
  SetKey(SetKey(FailedEntry(e), "gen_sql", <<>>), "error", TheValue(x))

\* run_eval.py:223-227  the handler assigns to the keys of the object entry
\* names: when that object is already in results, the list shows the
\* assignments
Mutated(list, e) ==
  IF appended THEN [list EXCEPT ![Len(list)] = e] ELSE list

\* run_eval.py:218-230  except Exception
ExceptHandler ==
  /\ pc = "except"
  /\ results' = Append(Mutated(results, ErrorEntry(entry, exc)),
                       ErrorEntry(entry, exc))
  /\ total' = total + 1
  /\ exc' = None
  /\ NextIteration
  /\ UNCHANGED <<exact_match, valid_sql, exec_correct, summary, inputs>>

\* a rate that only cuts the digits after the fourth
rate_Truncated(counter, n) ==
  IF n > 0 THEN (10000 * counter) \div n ELSE 0

\* run_eval.py:243-245  round(counter / total, 4) if total > 0 else 0, in
\* ten-thousandths.  round() takes the nearest value; two values are
\* equally near only when total is a multiple of 32, and the even one is
\* taken when the quotient is an exact float (every total below 160).
rate(counter, n) ==
  IF n > 0
  THEN LET q == (10000 * counter) \div n
           r == (10000 * counter) % n
       IN  IF 2 * r < n THEN q
           ELSE IF 2 * r > n THEN q + 1
           ELSE IF q % 2 = 0 THEN q ELSE q + 1
  ELSE 0

\* run_eval.py:237-254  the document
Summary ==
  [total_samples |-> total,
   exact_match |-> exact_match,
   valid_sql |-> valid_sql,
   execution_accuracy |-> exec_correct,
   exact_match_rate |-> rate(exact_match, total),
   valid_sql_rate |-> rate(valid_sql, total),
   execution_accuracy_rate |-> rate(exec_correct, total),
   results |-> results]

\* run_eval.py:232-266  the summary is computed and written
Report ==
  /\ pc = "report"
  /\ summary' = Some(Summary)
  /\ pc' = "final"
  /\ UNCHANGED <<idx, locals, counters, results, exc, inputs>>

\* run_eval.py:268-294  the final report divides by total (273) and ends
\* with a message that carries a check mark, a warning sign or a cross
FinalReport ==
  /\ pc = "final"
  /\ \/ /\ total = 0
        /\ exc' = Some("ZeroDivisionError")
        /\ pc' = "raised"
     \/ /\ total > 0
        /\ exc' = Some("UnicodeEncodeError")
        /\ pc' = "raised"
     \/ /\ total > 0
        /\ exc' = exc
        /\ pc' = "returned"
  /\ UNCHANGED <<idx, locals, counters, results, summary, inputs>>

Next ==
  \/ LoadSpider
  \/ LoopDone
  \/ SchemaRaises
  \/ SchemaMissing
  \/ SampleBegins
  \/ SchemaLinking
  \/ Decomposition
  \/ Planning
  \/ Generation
  \/ LoopHead
  \/ CorrectionPlan
  \/ CorrectionSql
  \/ ScoreExactMatch
  \/ ScoreValidSql
  \/ ScoreExecution
  \/ Progress
  \/ ExceptHandler
  \/ Report
  \/ FinalReport

Spec == Init /\ [][Next]_vars

\* the places of evaluate where a sample is being processed
SamplePcs ==
  {"for", "schema", "decomp", "plan", "gen", "loop", "corr_plan",
   "corr_sql", "score_em", "score_valid", "score_exec", "progress",
   "except"}

\* START.py:86-91  the user interrupts the run: KeyboardInterrupt is not an
\* Exception, so the handler at run_eval.py:218 does not catch it; it
\* leaves evaluate (whose locals are gone with its frame) and is caught by
\* run_evaluation, which prints a message.
Interrupt ==
  /\ pc \in SamplePcs
  /\ pc' = "interrupted"
  /\ exc' = None
  /\ ResetLocals
  /\ UNCHANGED <<idx, counters, results, summary, inputs>>

\* a run the user may interrupt
SpecInterrupt == Init /\ [][Next \/ Interrupt]_vars

-----------------------------------------------------------------------------
(* Functions called on their own.  No run of evaluate is under way: the    *)
(* state holds the call, first with its argument, then with its result.    *)
Calling(fn, args) ==
  /\ pc = "idle"
  /\ devLen = 0
  /\ num_samples = 0
  /\ Idle
  /\ call \in {[fn |-> fn, arg |-> a, ret |-> None] : a \in args}

Returns(fn, value) ==
  /\ call.fn = fn
  /\ call.ret = None
  /\ call' = [call EXCEPT !.ret = Some(value)]
  /\ UNCHANGED <<pc, idx, locals, counters, results, summary, exc,
                 devLen, num_samples>>

Returned(fn) == call.fn = fn /\ call.ret # None
Result == TheValue(call.ret)

\* texts that are not JSON: prose with clause words, a brace pair around
\* prose, nothing
ProseTexts ==
  {Chars("We need to SELECT, WHERE, and JOIN tables"),
   Chars("sort the rows, then stop at the first"),
   Chars("{oops}"),
   Chars("no idea"),
   <<>>}

\* analyze_by_subproblems.py:11  parse_subproblems(sub_json), for every
\* document of the model and every text that is not JSON
InitClauseDetector ==
  Calling("parse_subproblems",
          {JsonTexts[d] : d \in JsonDocuments} \cup ProseTexts)
CallParseSubproblems ==
  Returns("parse_subproblems", parse_subproblems(call.arg))
SpecClauseDetector == InitClauseDetector /\ [][CallParseSubproblems]_vars

\* utils.py:236  clause_specific_prompts(clauses), for every list that
\* list(set(...)) of run_eval.py:104 can make of at most MaxClauses of
\* these clause names
PolicyClauses ==
  {JStr(Chars("order by")), JStr(Chars("GROUP BY")), JStr(Chars("HAVING")),
   JStr(Chars("LIMIT")), JStr(Chars("where"))}
MaxClauses == 3
ClauseLists ==
  UNION {Orderings(S) : S \in {T \in SUBSET PolicyClauses :
                                  Cardinality(T) <= MaxClauses}}
InitClausePolicy == Calling("clause_specific_prompts", ClauseLists)
CallClausePrompts ==
  Returns("clause_specific_prompts", clause_specific_prompts(call.arg))
SpecPolicy == InitClausePolicy /\ [][CallClausePrompts]_vars

\* utils.py:82  postprocess_sql(sql), for the answers a model gives: a
\* statement, with or without a keyword, behind an introduction, a label
\* or a fence, and followed by terminators or a closing fence
SqlTexts ==
  LET prefixes ==
        {<<>>, Chars("x "), Chars("sql: "), Chars("Answer: "),
         FenceSql \o Chars("\n")}
      cores ==
        {Chars("SELECT 1"), Chars("sel") \o <<BQ>> \o Chars("ect 1"),
         Chars("select  a , b"), Chars("drop it"), Chars("INSERT into t"),
         Fence \o Chars("sql 1")}
      suffixes ==
        {<<>>, Chars(";"), Chars(";;"), Chars(" ; "), Chars("\n") \o Fence,
         Chars(";") \o Fence}
  IN  {p \o c \o s : p \in prefixes, c \in cores, s \in suffixes}
InitNormalizer == Calling("postprocess_sql", SqlTexts)
CallPostprocessSql ==
  Returns("postprocess_sql", postprocess_sql(call.arg))
SpecNormalizer == InitNormalizer /\ [][CallPostprocessSql]_vars

\* utils.py:34  query_execution(item, sql), for a reference statement and
\* a candidate statement, on a database that is missing or that answers
\* each of them with an error or with rows.  The candidate's rows are all
\* the results of at most MaxRows rows of one or of two cells.
CellValues == {IntCell(<<"1">>), IntCell(<<"2">>), StrCell(<<"1">>)}
MaxRows == 2
CandidateResults ==
  LET row == {<<a>> : a \in CellValues}
               \cup {<<a, b>> : a, b \in CellValues}
  IN  UNION {[1..n -> row] : n \in 0..MaxRows}
ReferenceResults ==
  {<<>>,
   << <<IntCell(<<"1">>)>> >>,
   << <<IntCell(<<"1">>)>>, <<IntCell(<<"1">>)>> >>,
   << <<IntCell(<<"1">>)>>, <<IntCell(<<"2">>)>> >>,
   << <<IntCell(<<"1">>), IntCell(<<"2">>)>> >>,
   << <<IntCell(<<"1">>), IntCell(<<"2">>)>>,
      <<StrCell(<<"1">>), IntCell(<<"1">>)>> >>}
ComparatorDatabases(gold_sql, gen_sql) ==
  LET outcomes(fetched) ==
        {[ok |-> FALSE, rows |-> <<>>]}
          \cup {[ok |-> TRUE, rows |-> r] : r \in fetched}
  IN  {Database("missing")}
        \cup {[status |-> "ok",
               engine |-> (gold_sql :> og) @@ (gen_sql :> oc) @@ NoEngine] :
                og \in outcomes(ReferenceResults),
                oc \in outcomes(CandidateResults)}
ComparatorCalls ==
  {[item |-> [query |-> q, db |-> db], sql |-> c] :
     q \in GoldQueries, c \in {SqlSelect1, SqlSelect2},
     db \in ComparatorDatabases(postprocess_sql(SqlSelect1),
                                postprocess_sql(SqlSelect2))}
InitComparator == Calling("query_execution", ComparatorCalls)
CallQueryExecution ==
  Returns("query_execution", query_execution(call.arg.item, call.arg.sql))
SpecComparator == InitComparator /\ [][CallQueryExecution]_vars

\* run_eval.py:243-245  the rate of a counter, for every counter and total
\* a run of at most MaxTotal counted samples can end with: a sample adds
\* one to a counter at most once and one to total at least once
MaxTotal == 10
InitRates ==
  Calling("rate", {a \in [counter : 0..MaxTotal, total : 0..MaxTotal] :
                     a.counter <= a.total})
CallRate == Returns("rate", rate(call.arg.counter, call.arg.total))
SpecRates == InitRates /\ [][CallRate]_vars

\* run_eval.py:131-135 and 179-188  what a sample's answer is scored as:
\* the candidate is postprocess_sql of the answer, exec_match is
\* query_execution's verdict on it and exact_match the comparison of its
\* text with the normalized reference.  The references are two statements
\* postprocess_sql leaves as they are once normalized, and one it does not;
\* the engine answers each statement executed with an error or rows.
InitScoring ==
  LET quoted  == Chars("VALUES ('sel") \o <<BQ>> \o Chars("ect')")
      answers == SqlResponses \cup {quoted}
  IN  Calling("score",
              UNION {{[item |-> [query |-> q, db |-> db], answer |-> r] :
                        db \in Answering(Database("ok"),
                                         QueryStatements([query |-> q],
                                                         postprocess_sql(r)))} :
                     q \in {SqlSelect1, SqlSelect2, quoted}, r \in answers})
CallScoring ==
  LET cand == postprocess_sql(call.arg.answer)
  IN  Returns("score",
              [gen_sql |-> cand,
               exact_match |-> IsExactMatch(cand, call.arg.item.query),
               exec_match |->
                 query_execution(call.arg.item, cand).exec_match])
SpecScoring == InitScoring /\ [][CallScoring]_vars

-----------------------------------------------------------------------------
(* The claims.                                                             *)

LoopPcs == {"loop", "corr_plan", "corr_sql"}
ScoringPcs == {"score_em", "score_valid", "score_exec"}
Last(seq) == seq[Len(seq)]
Appends == Len(results') = Len(results) + 1

\* C1: the correction loop begins at most MAX_CRITIC_ATTEMPTS iterations for
\* a sample, whatever the backend and the engine answer, and when the loop
\* is left without an exception the sample is at Scoring.
C1_LoopBounded ==
  /\ [](iters <= MAX_CRITIC_ATTEMPTS /\ attempts <= MAX_CRITIC_ATTEMPTS)
  /\ [][(pc \in LoopPcs /\ pc' \notin LoopPcs /\ exc' = None)
          => pc' = "score_em"]_vars
  /\ [][(pc = "loop" /\ (attempts >= MAX_CRITIC_ATTEMPTS \/ ~exec_failed))
          => pc' = "score_em"]_vars

\* C1 witness: the budget is used up by a backend that repeats its SQL, and
\* the sample is at Scoring.
C1_Witness ==
  /\ pc = "score_em"
  /\ iters = MAX_CRITIC_ATTEMPTS
  /\ attempts = MAX_CRITIC_ATTEMPTS
  /\ exec_failed
  /\ unchanged

\* C2 as claimed: no corrected candidate that is executed equals the
\* candidate it was asked to correct.
C2_NeverRetriesUnchanged == ~unchanged

\* C2 amended: a corrected SQL equal to the candidate it replaces is
\* executed again and counts as one attempt, so the same SQL is retried, but
\* no more than MAX_CRITIC_ATTEMPTS times for a sample.
C2_RetryIsCounted ==
  /\ [][(pc = "corr_sql" /\ pc' # "score_em" /\ sql' = sql)
          => /\ unchanged'
             /\ attempts' = attempts + 1
             /\ execCalls' = execCalls + 2]_vars
  /\ [](unchanged => (1 <= attempts /\ attempts <= MAX_CRITIC_ATTEMPTS))

\* C2 witness: the same SQL has been executed again, twice over.
C2_Witness == pc = "loop" /\ unchanged /\ attempts >= 2 /\ exec_failed

\* C3 as claimed: when the correction-plan call fails, the loop is left
\* with the candidate as it was and no correction-SQL request is made.
C3_PlanFailureExits ==
  [][(pc = "corr_plan" /\ correction_plan' = AgentFailure)
       => (pc' = "score_em" /\ sql' = sql)]_vars

\* C4: when the correction-SQL call fails the loop is left with the
\* candidate and its verdict as they were, the verdict is that of the
\* comparison of this candidate, and scoring records both in the entry.
C4_BreakKeepsCandidate ==
  /\ [][(pc = "corr_sql" /\ pc' = "score_em")
          => (sql' = sql /\ exec_match' = exec_match /\ error' = error)]_vars
  /\ [](pc \in LoopPcs \cup ScoringPcs
          => /\ exec_match = query_execution(item, sql).exec_match
             /\ error = query_execution(item, sql).error)
  /\ [][(pc = "score_exec" /\ Appends)
          => /\ Last(results').gen_sql = sql
             /\ Last(results').exec_match = exec_match]_vars

\* C4 witness: the second iteration's correction-SQL call failed, and the
\* candidate at Scoring is the one the first iteration produced.
C4_Witness ==
  /\ pc = "score_em"
  /\ attempts = 1
  /\ iters = 2
  /\ exec_failed
  /\ sql = postprocess_sql(SqlSelect2)

\* the engine's answer for the gen_sql of the entry a step appends
AppendedIsValid ==
  exec_query(item.db, Last(results').gen_sql).error = None

\* C5 as claimed: on every path, the entry's valid_sql tells whether the
\* engine runs gen_sql without error.
C5_ValidIffExecutes ==
  [][Appends => (Last(results').valid_sql <=> AppendedIsValid)]_vars

\* C5 amended: an entry of the scoring path has valid_sql true exactly when
\* the engine runs its gen_sql without error; an entry of the
\* generation-failure path or of the exception path has gen_sql "" and
\* valid_sql false, whatever the engine answers for the empty statement.
C5_ValidIffExecutesWhenScored ==
  [][Appends =>
       IF pc = "score_exec"
       THEN /\ Last(results').gen_sql = sql
            /\ Last(results').valid_sql <=> AppendedIsValid
       ELSE /\ Last(results').gen_sql = EmptyStatement
            /\ ~Last(results').valid_sql]_vars

\* C5 witness: the list holds a scored entry with valid SQL, one with
\* invalid SQL, and an entry of a failure path.
C5_Witness ==
  /\ \E i \in 1..Len(results) : results[i].valid_sql
  /\ \E i \in 1..Len(results) :
       results[i].gen_sql = EmptyStatement /\ ~results[i].valid_sql

\* C6 as claimed: exec_match implies valid_sql in every entry.
C6_ExecMatchImpliesValid ==
  \A i \in 1..Len(results) : results[i].exec_match => results[i].valid_sql

\* C7: a failure of the SQL agent finalizes the sample at once: one entry
\* with gen_sql "" and the three metrics false is appended, total grows by
\* one, no other counter changes, and the sample has made no exec_query
\* call and begun no correction iteration.
C7_GenerationFailureFinalizes ==
  [][(pc = "gen" /\ pc' # "loop")
       => /\ results' = Append(results,
                          [sample_id |-> idx + 1, gen_sql |-> <<>>,
                           exact_match |-> FALSE, valid_sql |-> FALSE,
                           exec_match |-> FALSE])
          /\ total' = total + 1
          /\ UNCHANGED <<exact_match, valid_sql, exec_correct>>
          /\ execCalls = 0 /\ execCalls' = 0
          /\ iters = 0 /\ iters' = 0
          /\ pc' = "for" /\ idx' = idx + 1]_vars

\* C7 witness: the list ends with the entry of a sample whose SQL agent
\* failed.
C7_Witness ==
  /\ pc = "for"
  /\ Len(results) > 0
  /\ Last(results).gen_sql = EmptyStatement
  /\ "error" \notin DOMAIN Last(results)
  /\ total = 1

\* C8 as claimed: an exception raised while a sample is processed reaches
\* the sample's handler, which records the sample with gen_sql "", the
\* metrics false and the error text, and goes on to the next sample.
C8_ExceptionAbortsOnlySample ==
  /\ []((exc # None /\ idx < SliceLen) => pc = "except")
  /\ [][pc = "except"
          => /\ results' = Append(results,
                             [sample_id |-> idx + 1, gen_sql |-> <<>>,
                              exact_match |-> FALSE, valid_sql |-> FALSE,
                              exec_match |-> FALSE, error |-> TheValue(exc)])
             /\ pc' = "for" /\ idx' = idx + 1]_vars

\* C9 as claimed: once the summary is written, the results hold an entry
\* for every sample of the dataset slice.
C9_EverySampleHasEntry ==
  summary # None =>
    \A k \in 1..SliceLen : \E i \in 1..Len(results) : results[i].sample_id = k

\* C10 as claimed, for a dataset that loaded and a run that has been through
\* every sample of the slice (no sample counted, total = 0, included):
\* evaluate ends by returning normally, with the summary written.
C10_RunCompletesWithSummary ==
  (devLen > 0 /\ idx = SliceLen /\ pc \in {"returned", "raised"})
    => (pc = "returned" /\ summary # None /\ exc = None)

\* C11 as claimed: when the user interrupts the run while samples are being
\* processed, a summary is written that holds the Sample Results collected
\* so far.
C11_InterruptKeepsResults ==
  (pc = "interrupted" /\ Len(results) > 0)
    => (summary # None /\ TheValue(summary).results = results)

\* C13 as claimed: parse_subproblems raises for no input text.
C13_DetectorNeverFails ==
  Returned("parse_subproblems") => ~Raised(Result)

\* no JSON document can be taken from the text
Malformed(text) ==
  \/ Raised(clean_json(text))
  \/ Raised(json_loads(Ret(clean_json(text))))

\* C12 as claimed: a decomposition response that is not empty and not valid
\* structured data is recovered at the stage: no exception is raised, no
\* entry is written, and the sample goes on to Planning.
C12_MalformedDecompositionRecovered ==
  [][(pc = "decomp" /\ sub_json_raw' # SubproblemAgentFailure
        /\ Malformed(sub_json_raw'))
       => (pc' = "plan" /\ exc' = None /\ results' = results)]_vars

\* C18: a failed adapter call at SchemaLinking, Decomposition or Planning
\* neither finalizes nor aborts the sample: the stage goes on with the raw
\* schema, with "{}", with the generic plan, never with the failure signal,
\* and the sample comes to Generation; of the four stages only Generation
\* writes an entry when its call fails.
C18_StageFailureFallsBack ==
  /\ [][pc = "schema"
          => /\ pc' = "decomp" /\ exc' = None /\ results' = results
             /\ corrected_schema' # AgentFailure]_vars
  /\ [][(pc = "decomp" /\ sub_json_raw' = SubproblemAgentFailure)
          => /\ pc' = "plan" /\ exc' = None /\ results' = results
             /\ sub_json' = EmptyJson
             /\ subprob_plan' = <<>> /\ subprob_sql' = <<>>]_vars
  /\ [][pc = "plan"
          => /\ pc' = "gen" /\ exc' = None /\ results' = results
             /\ plan' # AgentFailure]_vars
  /\ [](pc = "gen" => (corrected_schema # AgentFailure /\ plan # AgentFailure
                         /\ sub_json # SubproblemAgentFailure))

\* C18 witness: the three calls failed and the sample is at Generation with
\* the three fallbacks.
C18_Witness ==
  /\ pc = "gen"
  /\ corrected_schema = RawSchema
  /\ sub_json_raw = SubproblemAgentFailure
  /\ sub_json = EmptyJson
  /\ plan = GenericPlan

\* C19 as claimed: the planning guidance is part of the text of the
\* Planning request and the generation guidance is part of the text of the
\* Generation request.
C19_GuidanceConsumed ==
  /\ (pc = "plan" /\ subprob_plan # <<>>)
       => Contains(plan_prompt, subprob_plan)
  /\ (pc = "gen" /\ subprob_sql # <<>>)
       => Contains(sql_prompt, subprob_sql)

\* C20 as claimed: no step changes an entry that is in the result list.
C20_EntriesNeverMutated ==
  [][\A i \in 1..Len(results) : results'[i] = results[i]]_vars

\* C14: the planning and generation texts clause_specific_prompts returns
\* for a list of clauses are the texts it returns for every other order of
\* the same clauses.
C14_GuidanceIgnoresOrder ==
  Returned("clause_specific_prompts") =>
    \A other \in Orderings(Range(call.arg)) :
      clause_specific_prompts(other) = Result

\* C15: postprocess_sql applied to a text it returned returns that text
\* again.
C15_NormalizerIdempotent ==
  Returned("postprocess_sql") => postprocess_sql(Result) = Result

\* what sqlite did with the reference and with the candidate statement of
\* the call
Compared == call.fn = "query_execution" /\ call.arg.item.db.status = "ok"
GoldOutcome == call.arg.item.db.engine[postprocess_sql(call.arg.item.query)]
GenOutcome == call.arg.item.db.engine[postprocess_sql(call.arg.sql)]

\* the multiset of the items of a list: each item with its number of
\* occurrences
Multiset(seq) ==
  [x \in Range(seq) |-> Cardinality({i \in 1..Len(seq) : seq[i] = x})]
CellTexts(row) == Multiset([j \in 1..Len(row) |-> row[j].str])
RowMultiset(rows) == Multiset([i \in 1..Len(rows) |-> CellTexts(rows[i])])

\* C16: when both statements run without error, query_execution reports a
\* match exactly when the two results hold the same multiset of rows, a
\* row being the multiset of the texts of its cells.
C16_MatchIsMultisetEquality ==
  (Returned("query_execution") /\ Compared
     /\ GoldOutcome.ok /\ GenOutcome.ok) =>
    (Result.exec_match <=>
       RowMultiset(GenOutcome.rows) = RowMultiset(GoldOutcome.rows))

\* the candidate fetched the reference's two rows in the other order, with
\* the cells of a row in the other order and a cell of another type, and
\* the results match
C16_Witness ==
  /\ Returned("query_execution") /\ Compared
  /\ GoldOutcome.ok /\ GenOutcome.ok
  /\ GoldOutcome.rows = << <<IntCell(<<"1">>), IntCell(<<"2">>)>>,
                           <<StrCell(<<"1">>), IntCell(<<"1">>)>> >>
  /\ GenOutcome.rows = << <<IntCell(<<"1">>), IntCell(<<"1">>)>>,
                          <<IntCell(<<"2">>), StrCell(<<"1">>)>> >>
  /\ Result.exec_match

\* C17: when the reference or the candidate fails, query_execution reports
\* no match; the error it returns is the candidate's, none when the
\* candidate ran, and not the error of a failed reference statement.
C17_ErrorIsCandidates ==
  Returned("query_execution") =>
    /\ (~Compared \/ ~GoldOutcome.ok \/ ~GenOutcome.ok) => ~Result.exec_match
    /\ Compared =>
         /\ GenOutcome.ok => Result.error = None
         /\ ~GenOutcome.ok =>
              Result.error = Some(ErrorText(postprocess_sql(call.arg.sql)))
         /\ postprocess_sql(call.arg.item.query) # postprocess_sql(call.arg.sql)
              => Result.error
                   # Some(ErrorText(postprocess_sql(call.arg.item.query)))
    /\ ~Compared => Result.error = Some(<<"n","o"," ","d","b">>)

\* only the reference statement failed: no match and no error
C17_Witness ==
  /\ Returned("query_execution") /\ Compared
  /\ ~GoldOutcome.ok /\ GenOutcome.ok /\ GenOutcome.rows # <<>>
  /\ ~Result.exec_match
  /\ Result.error = None

\* C21: a rate of the summary is the counter divided by the total, rounded
\* to four decimal places: the value in ten-thousandths nearest to it, and
\* 0 when the total is 0; it lies between 0 and 1.
C21_RatesRounded ==
  Returned("rate") =>
    LET c == call.arg.counter
        n == call.arg.total
    IN  /\ Result \in 0..10000
        /\ n = 0 => Result = 0
        /\ n > 0 => /\ 2 * (Result * n - 10000 * c) <= n
                    /\ 2 * (10000 * c - Result * n) <= n

\* 6 execution matches of 10 samples: the rate is 0.6000
C21_Witness ==
  /\ Returned("rate")
  /\ call.arg = [counter |-> 6, total |-> 10]
  /\ Result = 6000

\* C22: the first correction iteration begins only when the first candidate
\* did not match; when it matched, the sample goes from Generation to
\* Scoring, no correction request is made for it (iters stays 0), the
\* candidate stays the normalized answer of the SQL agent, and Scoring
\* records that candidate as gen_sql.
C22_LoopOnlyAfterMismatch ==
  /\ [][(pc = "loop" /\ iters = 0 /\ pc' = "corr_plan") => ~exec_match]_vars
  /\ [][(pc = "gen" /\ pc' = "loop")
          => /\ iters' = 0 /\ attempts' = 0
             /\ sql' \in {postprocess_sql(r) : r \in SqlResponses}]_vars
  /\ [][(pc = "loop" /\ iters = 0 /\ exec_match)
          => (pc' = "score_em" /\ iters' = 0 /\ sql' = sql)]_vars
  /\ [][(pc \in ScoringPcs /\ iters = 0)
          => /\ pc' \notin LoopPcs
             /\ pc' \in ScoringPcs => (iters' = 0 /\ sql' = sql)]_vars
  /\ [](pc \in {"corr_plan", "corr_sql"} => (iters >= 1 /\ ~exec_match))
  /\ [][(pc = "score_exec" /\ iters = 0 /\ exec_match /\ Appends)
          => Last(results').gen_sql = sql]_vars

\* C22 witness: a sample whose first candidate matched is at the end of
\* Scoring and no correction iteration has begun.
C22_Witness ==
  /\ pc = "score_exec"
  /\ exec_match
  /\ iters = 0
  /\ execCalls = 3
  /\ entry.gen_sql = postprocess_sql(SqlSelect1)

\* the stage a position of evaluate belongs to, by its place in the order
\* SchemaLinking, Decomposition, Planning, Generation, CorrectionLoop,
\* Scoring, Done; 0 is outside the samples
StageOf(p) ==
  CASE p = "schema" -> 1
    [] p = "decomp" -> 2
    [] p = "plan" -> 3
    [] p = "gen" -> 4
    [] p \in LoopPcs -> 5
    [] p \in ScoringPcs -> 6
    [] p \in {"progress", "except", "for"} -> 7
    [] OTHER -> 0

\* C23: within a sample a step stays in its stage (only in the correction
\* loop, in Scoring and at the end of the sample), enters the next stage,
\* or ends the sample; SchemaLinking is entered only from between two
\* samples, with nothing of the sample before left; Scoring is reached only
\* from the correction loop's guard or break, with a candidate the SQL
\* agent or the correction gave; the sample index moves on by one, and
\* only when the sample is done.
C23_StagesInOrder ==
  /\ [][(StageOf(pc) \in 1..6 /\ pc' # pc)
          => \/ StageOf(pc') = StageOf(pc) /\ StageOf(pc) \in {5, 6}
             \/ StageOf(pc') = StageOf(pc) + 1
             \/ StageOf(pc') = 7]_vars
  /\ [][(pc' = "schema" /\ pc # "schema")
          => /\ pc = "for"
             /\ idx' = idx
             /\ entry' = [sample_id |-> idx + 1]
             /\ sql' = <<>> /\ iters' = 0 /\ attempts' = 0 /\ ~appended'
             /\ results' = results]_vars
  /\ [][(pc' = "score_em" /\ pc # "score_em")
          => pc \in {"loop", "corr_sql"}]_vars
  /\ [](pc \in ScoringPcs
          => sql \in {postprocess_sql(r) : r \in SqlResponses})
  /\ [][idx' # idx
          => /\ idx' = idx + 1
             /\ StageOf(pc) \in {4, 7}
             /\ pc' = "for"]_vars

\* C23 witness: the second sample is at Scoring after two correction
\* iterations, the first sample has its entry.
C23_Witness ==
  /\ pc = "score_valid"
  /\ idx = 1
  /\ iters = 2
  /\ Len(results) = 1
  /\ results[1].sample_id = 1

\* C24 as claimed: the correction-plan request carries the candidate and the
\* error of that candidate's own most recent execution: the engine has
\* executed the statement the request shows, and the error in the request
\* is what the engine answered for it.
C24_RequestCarriesOwnError ==
  pc = "corr_plan" =>
    /\ sql \in DOMAIN item.db.engine
    /\ correction_plan_prompt
         = Chars("Question: " \o Question \o "\nSchema:\n"
                 \o corrected_schema \o "\nCurrent SQL:\n")
             \o sql \o Chars("\nError:\n")
             \o (IF item.db.engine[sql].ok THEN Chars("None")
                 ELSE ErrorText(sql))

\* the number of entries of results whose flag is true
Flagged(flag) == Cardinality({i \in 1..Len(results) : results[i][flag]})

\* C25 as claimed: between two samples and when the run is over, total is
\* the number of entries and each counter is the number of entries whose
\* flag is true.
C25_CountersAgreeWithResults ==
  pc \in {"for", "report", "final", "returned"} =>
    /\ total = Len(results)
    /\ exact_match = Flagged("exact_match")
    /\ valid_sql = Flagged("valid_sql")
    /\ exec_correct = Flagged("exec_match")

\* C26 as claimed: the sample_id values of results increase strictly, and
\* each is the 1-based position of a sample of the dataset slice.
C26_OneEntryPerSample ==
  /\ \A i \in 1..Len(results) : results[i].sample_id \in 1..SliceLen
  /\ \A i, j \in 1..Len(results) :
       i < j => results[i].sample_id < results[j].sample_id

\* C27 as claimed: a candidate scored as an exact match of a reference that
\* the engine runs without error is scored as an execution match.
C27_ExactMatchImpliesExecMatch ==
  (/\ Returned("score")
   /\ Result.exact_match
   /\ call.arg.item.db.engine[postprocess_sql(call.arg.item.query)].ok)
    => Result.exec_match

====
